---- MODULE Spec2Model ----
(***************************************************************************)
(* Model of the Python-to-C++ translation pipeline of draft.cpp:           *)
(* tokenize, parse, checkSemantics, generateCode and the menu loop of      *)
(* main.  Texts (std::string) are sequences of one-character strings.      *)
(***************************************************************************)
EXTENDS Integers, Sequences, FiniteSets, TLC

VARIABLES code, tokens, syntaxTree, exit, option, last, invoked, semOk, cppCode

vars == <<code, tokens, syntaxTree, exit, option, last, invoked, semOk, cppCode>>

(***************************************************************************)
(* Bounds of the exploration.                                              *)
(***************************************************************************)
MaxLen == 4
MaxTokens == 4

(***************************************************************************)
(* Character classes of the ECMAScript grammar used by std::regex.         *)
(***************************************************************************)
DigitChars == {"0", "1", "2", "3", "4", "5", "6", "7", "8", "9"}

WordChars ==
    {"a", "b", "c", "d", "e", "f", "g", "h", "i", "j", "k", "l", "m",
     "n", "o", "p", "q", "r", "s", "t", "u", "v", "w", "x", "y", "z",
     "A", "B", "C", "D", "E", "F", "G", "H", "I", "J", "K", "L", "M",
     "N", "O", "P", "Q", "R", "S", "T", "U", "V", "W", "X", "Y", "Z",
     "_"} \cup DigitChars

SpaceChars == {" ", "\t", "\n", "\r", "\f"}

LineTerminators == {"\n", "\r"}

Quote == "\""

\* The reserved words of the token pattern.
kwDef == <<"d", "e", "f">>
kwPrint == <<"p", "r", "i", "n", "t">>

\* The classes with the quote left out of the operator class.
CharInNoQuoteOp(c, cls) ==
    CASE cls = "w" -> c \in WordChars
      [] cls = "d" -> c \in DigitChars
      [] cls = "s" -> c \in SpaceChars
      [] OTHER -> c \notin WordChars /\ c \notin SpaceChars /\ c # "\""

\* cls is one of "w" (\w), "d" ([0-9]), "s" (\s), "o" ([^\w\s]).
CharIn(c, cls) ==
    CASE cls = "w" -> c \in WordChars
      [] cls = "d" -> c \in DigitChars
      [] cls = "s" -> c \in SpaceChars
      [] OTHER -> c \notin WordChars /\ c \notin SpaceChars

\* \b at the gap before position i of s (1-based; i = Len(s)+1 is the end).
IsWordBoundary(s, i) ==
    LET before == i > 1 /\ i - 1 <= Len(s) /\ s[i - 1] \in WordChars
        after  == i >= 1 /\ i <= Len(s) /\ s[i] \in WordChars
    IN before # after

\* Length matched at i by \bw\b, 0 when it does not match.
MatchWord(s, i, w) ==
    IF /\ i + Len(w) - 1 <= Len(s)
       /\ SubSeq(s, i, i + Len(w) - 1) = w
       /\ IsWordBoundary(s, i)
       /\ IsWordBoundary(s, i + Len(w))
    THEN Len(w) ELSE 0

RECURSIVE RunLen(_, _, _)
\* Length matched at i by a greedy class+ (the maximal run), 0 when none.
RunLen(s, i, cls) ==
    IF i <= Len(s) /\ CharIn(s[i], cls)
    THEN 1 + RunLen(s, i + 1, cls)
    ELSE 0

RECURSIVE QuoteClose(_, _)
\* Position of the quote that closes ".*?" when scanning from j, 0 when a
\* line terminator or the end of the text comes first.
QuoteClose(s, j) ==
    IF j > Len(s) THEN 0
    ELSE IF s[j] = Quote THEN j
    ELSE IF s[j] \in LineTerminators THEN 0
    ELSE QuoteClose(s, j + 1)

\* Length matched at i by ".*?", 0 when it does not match.
MatchString(s, i) ==
    IF i <= Len(s) /\ s[i] = Quote /\ QuoteClose(s, i + 1) > 0
    THEN QuoteClose(s, i + 1) - i + 1
    ELSE 0

\* The alternation with its whitespace alternative left out.
MatchAtNoSpace(s, i) ==
    IF MatchWord(s, i, kwDef) > 0 THEN MatchWord(s, i, kwDef)
    ELSE IF MatchWord(s, i, kwPrint) > 0 THEN MatchWord(s, i, kwPrint)
    ELSE IF RunLen(s, i, "w") > 0 THEN RunLen(s, i, "w")
    ELSE IF RunLen(s, i, "d") > 0 THEN RunLen(s, i, "d")
    ELSE IF MatchString(s, i) > 0 THEN MatchString(s, i)
    ELSE RunLen(s, i, "o")

\* The ordered alternation of token_regex tried at position i: the length of
\* the first alternative that matches, 0 when none does.
MatchAt(s, i) ==
    IF MatchWord(s, i, kwDef) > 0 THEN MatchWord(s, i, kwDef)
    ELSE IF MatchWord(s, i, kwPrint) > 0 THEN MatchWord(s, i, kwPrint)
    ELSE IF RunLen(s, i, "w") > 0 THEN RunLen(s, i, "w")
    ELSE IF RunLen(s, i, "d") > 0 THEN RunLen(s, i, "d")
    ELSE IF MatchString(s, i) > 0 THEN MatchString(s, i)
    ELSE IF RunLen(s, i, "s") > 0 THEN RunLen(s, i, "s")
    ELSE RunLen(s, i, "o")

RECURSIVE SearchFrom(_, _)
\* regex_search: the leftmost position >= i where the pattern matches,
\* 0 when there is no further match.
SearchFrom(s, i) ==
    IF i > Len(s) THEN 0
    ELSE IF MatchAt(s, i) > 0 THEN i
    ELSE SearchFrom(s, i + 1)

\* regex_match of a whole token text against ".*?" (the lazy body may grow).
FullString(t) ==
    /\ Len(t) >= 2
    /\ t[1] = Quote
    /\ t[Len(t)] = Quote
    /\ \A k \in 2..(Len(t) - 1) : t[k] \notin LineTerminators

\* The classification with the digit test ahead of the word test.
ClassifyDigitsFirst(t) ==
    IF MatchWord(t, 1, kwDef) = Len(t) \/ MatchWord(t, 1, kwPrint) = Len(t)
    THEN "KEYWORD"
    ELSE IF Len(t) > 0 /\ RunLen(t, 1, "d") = Len(t) THEN "NUMBER"
    ELSE IF Len(t) > 0 /\ RunLen(t, 1, "w") = Len(t) THEN "IDENTIFIER"
    ELSE IF FullString(t) THEN "STRING"
    ELSE IF Len(t) > 0 /\ RunLen(t, 1, "s") = Len(t) THEN "WHITESPACE"
    ELSE "OPERATOR"

\* The classification that takes every word for a keyword.
ClassifyWordsAsKeywords(t) ==
    IF Len(t) > 0 /\ RunLen(t, 1, "w") = Len(t) THEN "KEYWORD"
    ELSE IF FullString(t) THEN "STRING"
    ELSE IF Len(t) > 0 /\ RunLen(t, 1, "s") = Len(t) THEN "WHITESPACE"
    ELSE "OPERATOR"

\* The post-hoc classification of a matched text.
Classify(t) ==
    IF MatchWord(t, 1, kwDef) = Len(t) \/ MatchWord(t, 1, kwPrint) = Len(t)
    THEN "KEYWORD"
    ELSE IF Len(t) > 0 /\ RunLen(t, 1, "w") = Len(t) THEN "IDENTIFIER"
    ELSE IF Len(t) > 0 /\ RunLen(t, 1, "d") = Len(t) THEN "NUMBER"
    ELSE IF FullString(t) THEN "STRING"
    ELSE IF Len(t) > 0 /\ RunLen(t, 1, "s") = Len(t) THEN "WHITESPACE"
    ELSE "OPERATOR"

Token(type, value) == [type |-> type, value |-> value]

RECURSIVE TokenizeFrom(_, _)
\* The sregex_iterator loop: one token per successive match.
TokenizeFrom(s, i) ==
    LET p == SearchFrom(s, i)
    IN IF p = 0 THEN <<>>
       ELSE LET t == SubSeq(s, p, p + MatchAt(s, p) - 1)
            IN <<Token(Classify(t), t)>> \o TokenizeFrom(s, p + MatchAt(s, p))

tokenize(s) == TokenizeFrom(s, 1)


(***************************************************************************)
(* The syntax tree: struct Node { value; children; }.                      *)
(***************************************************************************)
Node(value, children) == [value |-> value, children |-> children]

\* A default-constructed Node: empty value, no children.
EmptyNode == Node(<<>>, <<>>)

\* The loop body that starts the first construct from a fresh node.
ParseStepDiscard(st, token) ==
    IF token.type = "KEYWORD"
    THEN IF st.current.value = <<>>
         THEN [root |-> st.root, current |-> Node(token.value, <<>>)]
         ELSE [root |-> Node(st.root.value,
                             Append(st.root.children, st.current)),
               current |-> Node(token.value, <<>>)]
    ELSE [root |-> st.root,
          current |-> Node(st.current.value,
                           Append(st.current.children,
                                  Node(token.value, <<>>)))]

\* The loop body that relabels current at every keyword and never closes it.
ParseStepRelabel(st, token) ==
    IF token.type = "KEYWORD"
    THEN [root |-> st.root,
          current |-> Node(token.value, st.current.children)]
    ELSE [root |-> st.root,
          current |-> Node(st.current.value,
                           Append(st.current.children,
                                  Node(token.value, <<>>)))]

\* One iteration of the loop of parse over the locals root and current.
ParseStep(st, token) ==
    IF token.type = "KEYWORD"
    THEN IF st.current.value = <<>>
         THEN [root |-> st.root,
               current |-> Node(token.value, st.current.children)]
         ELSE [root |-> Node(st.root.value,
                             Append(st.root.children, st.current)),
               current |-> Node(token.value, <<>>)]
    ELSE [root |-> st.root,
          current |-> Node(st.current.value,
                           Append(st.current.children,
                                  Node(token.value, <<>>)))]

RECURSIVE ParseLoop(_, _)
\* The locals of parse after its loop has consumed the first k tokens.
ParseLoop(toks, k) ==
    IF k = 0 THEN [root |-> EmptyNode, current |-> EmptyNode]
    ELSE ParseStep(ParseLoop(toks, k - 1), toks[k])

\* The end of parse without the push of the last construct.
ParseFinishNoPush(st) == st.root

\* The end of parse that pushes current whatever its label.
ParseFinishAlways(st) ==
    Node(st.root.value, Append(st.root.children, st.current))

\* What parse returns when its loop ends in the locals st.
ParseFinish(st) ==
    IF st.current.value # <<>>
    THEN Node(st.root.value, Append(st.root.children, st.current))
    ELSE st.root

parse(toks) == ParseFinish(ParseLoop(toks, Len(toks)))

(***************************************************************************)
(* checkSemantics.                                                         *)
(***************************************************************************)
\* value[0] of a std::string: the terminating NUL when the string is empty.
FirstChar(v) == IF Len(v) = 0 THEN "NUL" ELSE v[1]

\* The condition applied to every child, whatever its label.
PrintFailsAnyLabel(child) ==
    \/ Len(child.children) = 0
    \/ FirstChar(child.children[1].value) # Quote

\* The condition under which a child makes checkSemantics return false.
PrintFails(child) ==
    /\ child.value = kwPrint
    /\ \/ Len(child.children) = 0
       \/ FirstChar(child.children[1].value) # Quote

checkSemantics(node) ==
    \A i \in 1..Len(node.children) : ~PrintFails(node.children[i])

(***************************************************************************)
(* generateCode.  The result is kept as the sequence of the pieces that    *)
(* were appended to the local string `code`: lit marks a string literal of *)
(* generateCode, as opposed to a label copied from the tree.               *)
(***************************************************************************)
Lit(text) == [lit |-> TRUE, text |-> text]
Copied(text) == [lit |-> FALSE, text |-> text]

litVoid == <<"v", "o", "i", "d", " ">>
litOpenFn == <<"(", ")", " ", "{", "\n">>
litCout == <<"s", "t", "d", ":", ":", "c", "o", "u", "t", " ", "<", "<", " ">>
litEndl ==
    <<" ", "<", "<", " ", "s", "t", "d", ":", ":", "e", "n", "d", "l", ";",
      "\n">>
litBlock == <<" ", "{", "\n">>
litClose == <<"}", "\n">>
labColon == <<":">>

\* What a read of children[0] past the end of an empty vector may yield when
\* it does not fault.
GarbageValues == {<<>>, <<"?">>}

Outcome(fault, pieces) == [fault |-> fault, pieces |-> pieces]

RECURSIVE CopyAll(_, _)
\* The pieces appended by the loop over the grandchildren, from index i on.
CopyAll(children, i) ==
    IF i > Len(children) THEN <<>>
    ELSE <<Copied(children[i].value)>> \o CopyAll(children, i + 1)

\* The outcomes of one iteration of the loop of generateCode.
GenChild(child) ==
    IF child.value = kwDef
    THEN IF Len(child.children) > 0
         THEN {Outcome(FALSE, <<Lit(litVoid), Copied(child.children[1].value),
                                Lit(litOpenFn)>>)}
         ELSE {Outcome(TRUE, <<>>)} \cup
              {Outcome(FALSE, <<Lit(litVoid), Copied(g), Lit(litOpenFn)>>) :
                  g \in GarbageValues}
    ELSE IF child.value = kwPrint
    THEN {Outcome(FALSE, <<Lit(litCout)>> \o CopyAll(child.children, 1)
                         \o <<Lit(litEndl)>>)}
    ELSE IF child.value = labColon
    THEN {Outcome(FALSE, <<Lit(litBlock)>>)}
    ELSE {Outcome(FALSE, <<Copied(child.value)>>)}

RECURSIVE GenLoop(_, _)
\* The outcomes of the loop of generateCode over the first k children.
GenLoop(node, k) ==
    IF k = 0 THEN {Outcome(FALSE, <<>>)}
    ELSE UNION {IF o.fault THEN {o}
                ELSE {Outcome(c.fault,
                              IF c.fault THEN <<>> ELSE o.pieces \o c.pieces) :
                         c \in GenChild(node.children[k])} :
                   o \in GenLoop(node, k - 1)}

\* The outcomes of generateCode: a fault, or the pieces of the returned text.
generateCode(node) ==
    {IF o.fault THEN o ELSE Outcome(FALSE, Append(o.pieces, Lit(litClose))) :
        o \in GenLoop(node, Len(node.children))}

RECURSIVE Flatten(_)
\* The text a sequence of pieces amounts to.
Flatten(pieces) ==
    IF pieces = <<>> THEN <<>>
    ELSE Head(pieces).text \o Flatten(Tail(pieces))


(***************************************************************************)
(* Inputs.                                                                 *)
(***************************************************************************)
\* The scenario text of the pipeline.
txtScenario ==
    <<"d", "e", "f", " ", "m", "a", "i", "n", " ", "(", " ", ")", " ", ":",
      " ", "p", "r", "i", "n", "t", " ", "(", " ", "\"", "H", "e", "l", "l",
      "o", "\"", " ", ")">>

\* The same print statement written without spaces.
txtCompact ==
    <<"p", "r", "i", "n", "t", "(", "\"", "H", "e", "l", "l", "o", "\"", ")">>

\* A print keyword directly followed by a string literal.
txtPrintStr ==
    <<"p", "r", "i", "n", "t", "\"", "H", "i", "\"">>

\* A def keyword alone.
txtDef ==
    <<"d", "e", "f">>

\* Two def keywords.
txtDefDef ==
    <<"d", "e", "f", " ", "d", "e", "f">>

\* Tokens before the first keyword.
txtLeading ==
    <<"x", "=", "1", " ", "d", "e", "f", " ", "f">>

\* A def construct and a print construct.
txtTwo ==
    <<"d", "e", "f", " ", "f", " ", "p", "r", "i", "n", "t", "\"", "a", "\"",
      " ", "}">>

\* No keyword at all.
txtNoKeyword ==
    <<"x", " ", "=", " ", "4", "2">>

SampleTexts ==
    {txtScenario, txtCompact, txtPrintStr, txtDef,
     txtDefDef, txtLeading, txtTwo, txtNoKeyword}

\* The characters the bounded texts are made of: word characters (the letters
\* of def and a digit), whitespace, a line terminator, a quote, an operator.
Alphabet == {"d", "e", "f", "1", " ", "\n", "\"", "("}

\* All sequences over S of length at most n.
SeqsUpTo(S, n) == UNION {[1..k -> S] : k \in 0..n}

Texts == SeqsUpTo(Alphabet, MaxLen) \cup SampleTexts

\* Token values a caller of parse may hand over (non-empty texts).
TokenPool ==
    {Token("KEYWORD", kwDef), Token("KEYWORD", kwPrint),
     Token("KEYWORD", labColon), Token("IDENTIFIER", <<"f">>),
     Token("STRING", <<"\"", "a", "\"">>), Token("WHITESPACE", <<" ">>),
     Token("OPERATOR", <<"}">>)}

TokenSeqs == SeqsUpTo(TokenPool, MaxTokens)

\* The contents of the files option 1 of the menu may load.
FileTexts == {<<>>, txtScenario, txtPrintStr, txtDef, txtLeading}

NoOutcome == Outcome(FALSE, <<>>)

(***************************************************************************)
(* The stages applied one after the other to one input, as the stand-alone *)
(* drivers of the stages do.                                               *)
(***************************************************************************)
InitText ==
    /\ code \in Texts
    /\ tokens = <<>>
    /\ syntaxTree = EmptyNode
    /\ exit = FALSE
    /\ option = 0
    /\ last = "text"
    /\ invoked = {}
    /\ semOk = "none"
    /\ cppCode = NoOutcome

InitTokens ==
    /\ code = <<>>
    /\ tokens \in TokenSeqs
    /\ syntaxTree = EmptyNode
    /\ exit = FALSE
    /\ option = 0
    /\ last = "tokens"
    /\ invoked = {}
    /\ semOk = "none"
    /\ cppCode = NoOutcome

DoTokenize ==
    /\ last = "text"
    /\ tokens' = tokenize(code)
    /\ last' = "tokens"
    /\ invoked' = invoked \cup {"tokenize"}
    /\ UNCHANGED <<code, syntaxTree, exit, option, semOk, cppCode>>

DoParse ==
    /\ last = "tokens"
    /\ syntaxTree' = parse(tokens)
    /\ last' = "tree"
    /\ invoked' = invoked \cup {"parse"}
    /\ UNCHANGED <<code, tokens, exit, option, semOk, cppCode>>

\* The check that empties the tree it rejects.
DoCheckClearsTree ==
    /\ "parse" \in invoked
    /\ "checkSemantics" \notin invoked
    /\ semOk' = IF checkSemantics(syntaxTree) THEN "pass" ELSE "fail"
    /\ syntaxTree' = IF checkSemantics(syntaxTree) THEN syntaxTree
                     ELSE EmptyNode
    /\ last' = "checked"
    /\ invoked' = invoked \cup {"checkSemantics"}
    /\ UNCHANGED <<code, tokens, exit, option, cppCode>>

DoCheck ==
    /\ "parse" \in invoked
    /\ "checkSemantics" \notin invoked
    /\ semOk' = IF checkSemantics(syntaxTree) THEN "pass" ELSE "fail"
    /\ last' = "checked"
    /\ invoked' = invoked \cup {"checkSemantics"}
    /\ UNCHANGED <<code, tokens, syntaxTree, exit, option, cppCode>>

DoGenerate ==
    /\ "parse" \in invoked
    /\ "generateCode" \notin invoked
    /\ \E o \in generateCode(syntaxTree) : cppCode' = o
    /\ last' = "generated"
    /\ invoked' = invoked \cup {"generateCode"}
    /\ UNCHANGED <<code, tokens, syntaxTree, exit, option, semOk>>

NextText == DoTokenize \/ DoParse \/ DoCheck \/ DoGenerate

NextTokens == DoParse \/ DoCheck \/ DoGenerate

SpecText == InitText /\ [][NextText]_vars

SpecTokens == InitTokens /\ [][NextTokens]_vars


(***************************************************************************)
(* main: the menu loop.  Each action is one iteration of the loop with the *)
(* option read from the input; last is the line the iteration reported.    *)
(***************************************************************************)
Init ==
    /\ code = <<>>
    /\ tokens = <<>>
    /\ syntaxTree = EmptyNode
    /\ exit = FALSE
    /\ option = 0
    /\ last = "Menu:"
    /\ invoked = {}
    /\ semOk = "none"
    /\ cppCode = NoOutcome

\* case 1: load a file; opened tells whether file.is_open().
Case1 ==
    /\ ~exit
    /\ option' = 1
    /\ \E opened \in BOOLEAN, content \in FileTexts :
          IF opened
          THEN code' = content /\ last' = "File loaded."
          ELSE code' = code /\ last' = "Failed to open file."
    /\ UNCHANGED <<tokens, syntaxTree, exit, invoked, semOk, cppCode>>

\* case 2: tokenize the loaded text.
Case2 ==
    /\ ~exit
    /\ option' = 2
    /\ IF code # <<>>
       THEN /\ tokens' = tokenize(code)
            /\ invoked' = invoked \cup {"tokenize"}
            /\ last' = "Token("
       ELSE /\ UNCHANGED <<tokens, invoked>>
            /\ last' = "Load a file first."
    /\ UNCHANGED <<code, syntaxTree, exit, semOk, cppCode>>

\* case 3 without the test of the tokens.
Case3Unguarded ==
    /\ ~exit
    /\ option' = 3
    /\ syntaxTree' = parse(tokens)
    /\ invoked' = invoked \cup {"parse"}
    /\ last' = "printTree"
    /\ UNCHANGED <<code, tokens, exit, semOk, cppCode>>

\* case 3: parse the tokens.
Case3 ==
    /\ ~exit
    /\ option' = 3
    /\ IF tokens # <<>>
       THEN /\ syntaxTree' = parse(tokens)
            /\ invoked' = invoked \cup {"parse"}
            /\ last' = "printTree"
       ELSE /\ UNCHANGED <<syntaxTree, invoked>>
            /\ last' = "Tokenize the code first."
    /\ UNCHANGED <<code, tokens, exit, semOk, cppCode>>

\* case 4: check the semantics of the tree.
Case4 ==
    /\ ~exit
    /\ option' = 4
    /\ IF syntaxTree.value # <<>>
       THEN /\ semOk' = IF checkSemantics(syntaxTree) THEN "pass" ELSE "fail"
            /\ invoked' = invoked \cup {"checkSemantics"}
            /\ last' = IF checkSemantics(syntaxTree)
                       THEN "Semantic check passed."
                       ELSE "Error: 'print' requires a string argument"
       ELSE /\ UNCHANGED <<semOk, invoked>>
            /\ last' = "Parse the code first."
    /\ UNCHANGED <<code, tokens, syntaxTree, exit, cppCode>>

\* case 5: generate the C++ code; a fault ends the process.
Case5 ==
    /\ ~exit
    /\ option' = 5
    /\ IF syntaxTree.value # <<>>
       THEN /\ \E o \in generateCode(syntaxTree) :
                  /\ cppCode' = o
                  /\ exit' = o.fault
                  /\ last' = IF o.fault THEN "fault" ELSE "Generated C++ Code:"
            /\ invoked' = invoked \cup {"generateCode"}
       ELSE /\ UNCHANGED <<cppCode, invoked, exit>>
            /\ last' = "Parse the code first."
    /\ UNCHANGED <<code, tokens, syntaxTree, semOk>>

\* case 6: leave the loop.
Case6 ==
    /\ ~exit
    /\ option' = 6
    /\ exit' = TRUE
    /\ last' = "exit"
    /\ UNCHANGED <<code, tokens, syntaxTree, invoked, semOk, cppCode>>

\* default: any other number, or 0 when the read of the option fails.
CaseDefault ==
    /\ ~exit
    /\ option' \in {0, 7}
    /\ last' = "Invalid option."
    /\ UNCHANGED <<code, tokens, syntaxTree, exit, invoked, semOk, cppCode>>

Next == Case1 \/ Case2 \/ Case3 \/ Case4 \/ Case5 \/ Case6 \/ CaseDefault

Spec == Init /\ [][Next]_vars


(***************************************************************************)
(* Vocabulary of the properties.                                           *)
(***************************************************************************)
RECURSIVE ConcatValues(_)
\* The texts of a token sequence, concatenated in order.
ConcatValues(toks) ==
    IF toks = <<>> THEN <<>>
    ELSE Head(toks).value \o ConcatValues(Tail(toks))

\* The positions of the KEYWORD tokens of a token sequence.
KwPos(toks) == {i \in 1..Len(toks) : toks[i].type = "KEYWORD"}

\* The position of the n-th KEYWORD token.
NthKw(toks, n) ==
    CHOOSE k \in KwPos(toks) : Cardinality({j \in KwPos(toks) : j <= k}) = n

\* The position of the last token of the n-th keyword's segment.
SegEnd(toks, n) ==
    IF n < Cardinality(KwPos(toks)) THEN NthKw(toks, n + 1) - 1 ELSE Len(toks)

\* One leaf per token of toks[a..b], in order.
Leaves(toks, a, b) ==
    [j \in 1..(b - a + 1) |-> Node(toks[a + j - 1].value, <<>>)]

\* The tokens that follow the n-th keyword up to the next keyword, as leaves.
Following(toks, n) == Leaves(toks, NthKw(toks, n) + 1, SegEnd(toks, n))

\* The tokens that precede the first keyword, as leaves.
Leading(toks) == Leaves(toks, 1, NthKw(toks, 1) - 1)

\* The token sequence has a keyword, and tokens ahead of the first one.
HasLeading(toks) == KwPos(toks) # {} /\ NthKw(toks, 1) > 1

IsPrefix(p, s) == Len(p) <= Len(s) /\ SubSeq(s, 1, Len(p)) = p

IsSuffix(p, s) ==
    Len(p) <= Len(s) /\ SubSeq(s, Len(s) - Len(p) + 1, Len(s)) = p

Contains(p, s) ==
    \E i \in 1..(Len(s) - Len(p) + 1) : SubSeq(s, i, i + Len(p) - 1) = p

\* How many times the character c occurs in the text s.
Count(c, s) == Cardinality({i \in 1..Len(s) : s[i] = c})

RECURSIVE LitCount(_, _)
\* How many times c occurs in the string literals among the pieces.
LitCount(c, pieces) ==
    IF pieces = <<>> THEN 0
    ELSE (IF Head(pieces).lit THEN Count(c, Head(pieces).text) ELSE 0)
         + LitCount(c, Tail(pieces))

Did(f) == f \in invoked


(***************************************************************************)
(* Properties of tokenize (checked under SpecText).                        *)
(***************************************************************************)
\* C1: the texts of the tokens tokenize returns, concatenated in order, are
\* the input text, and no token text is empty.
C1_TokensCoverText ==
    Did("tokenize") =>
        /\ ConcatValues(tokens) = code
        /\ \A i \in 1..Len(tokens) : tokens[i].value # <<>>

C1_Witness ==
    /\ Did("tokenize")
    /\ code = txtScenario
    /\ Len(tokens) = 17
    /\ ConcatValues(tokens) = code

(***************************************************************************)
(* Properties of parse (checked under SpecTokens).                         *)
(***************************************************************************)
\* C2 as stated: the tokens ahead of the first keyword are discarded, so the
\* first construct's children are only the tokens that follow its keyword.
C2_LeadingDiscarded ==
    (Did("parse") /\ HasLeading(tokens)) =>
        /\ Len(syntaxTree.children) >= 1
        /\ syntaxTree.children[1].children = Following(tokens, 1)

\* C2 as amended: the tokens ahead of the first keyword are kept: they are,
\* in order, the first children of the first construct, ahead of the tokens
\* that follow its keyword.
C2_LeadingKept ==
    (Did("parse") /\ HasLeading(tokens)) =>
        /\ Len(syntaxTree.children) >= 1
        /\ syntaxTree.children[1].children
              = Leading(tokens) \o Following(tokens, 1)

C2_Witness ==
    /\ Did("parse")
    /\ HasLeading(tokens)
    /\ NthKw(tokens, 1) = 3
    /\ Len(Following(tokens, 1)) = 1
    /\ Len(syntaxTree.children[1].children) = 3

\* C3 as stated: with exactly one KEYWORD token the root has one child,
\* labelled with the keyword's text, whose children are exactly the tokens
\* after the keyword.
C3_OnlyFollowing ==
    (Did("parse") /\ Cardinality(KwPos(tokens)) = 1) =>
        /\ Len(syntaxTree.children) = 1
        /\ syntaxTree.children[1].value = tokens[NthKw(tokens, 1)].value
        /\ syntaxTree.children[1].children = Following(tokens, 1)

\* C3 as amended: with exactly one KEYWORD token the root has one child,
\* labelled with the keyword's text, whose children are all the other
\* tokens in order: those before the keyword, then those after it.
C3_AllOthers ==
    (Did("parse") /\ Cardinality(KwPos(tokens)) = 1) =>
        /\ Len(syntaxTree.children) = 1
        /\ syntaxTree.children[1].value = tokens[NthKw(tokens, 1)].value
        /\ syntaxTree.children[1].children
              = Leading(tokens) \o Following(tokens, 1)

C3_Witness ==
    /\ Did("parse")
    /\ Cardinality(KwPos(tokens)) = 1
    /\ NthKw(tokens, 1) = 2
    /\ Len(tokens) = 4
    /\ Len(syntaxTree.children) = 1
    /\ Len(syntaxTree.children[1].children) = 3

\* C4 as stated: one child of the root per KEYWORD token, in order, labelled
\* with its text, holding exactly the tokens up to the next keyword or the
\* end; no keyword, no child.
C4_SegmentsOnly ==
    Did("parse") =>
        /\ Len(syntaxTree.children) = Cardinality(KwPos(tokens))
        /\ \A n \in 1..Len(syntaxTree.children) :
              /\ syntaxTree.children[n].value = tokens[NthKw(tokens, n)].value
              /\ syntaxTree.children[n].children = Following(tokens, n)

\* C4 as amended: as stated, except that the first child holds, ahead of the
\* tokens that follow its keyword, the tokens that precede the first keyword.
C4_SegmentsAndLeading ==
    Did("parse") =>
        /\ Len(syntaxTree.children) = Cardinality(KwPos(tokens))
        /\ \A n \in 1..Len(syntaxTree.children) :
              /\ syntaxTree.children[n].value = tokens[NthKw(tokens, n)].value
              /\ syntaxTree.children[n].children
                    = (IF n = 1 THEN Leading(tokens) ELSE <<>>)
                      \o Following(tokens, n)

C4_Witness ==
    /\ Did("parse")
    /\ Cardinality(KwPos(tokens)) = 2
    /\ NthKw(tokens, 1) = 2
    /\ NthKw(tokens, 2) = 3
    /\ Len(tokens) = 4
    /\ Len(syntaxTree.children) = 2
    /\ Len(syntaxTree.children[1].children) = 1
    /\ Len(syntaxTree.children[2].children) = 1

(***************************************************************************)
(* Properties of checkSemantics.                                           *)
(***************************************************************************)
\* A construct whose first child's label begins with a double quote.
QuoteFirst(child) ==
    /\ Len(child.children) >= 1
    /\ Len(child.children[1].value) >= 1
    /\ child.children[1].value[1] = Quote

\* C5: checkSemantics passes exactly when every child of the root labelled
\* print has a first child whose label begins with a double quote; a tree
\* without print children passes whatever its other children hold.
C5_PassIffPrintsQuoted ==
    Did("checkSemantics") =>
        /\ (semOk = "pass") <=>
              \A i \in 1..Len(syntaxTree.children) :
                  syntaxTree.children[i].value = kwPrint
                      => QuoteFirst(syntaxTree.children[i])
        /\ (\A i \in 1..Len(syntaxTree.children) :
                syntaxTree.children[i].value # kwPrint) => semOk = "pass"

C5_Witness ==
    /\ Did("checkSemantics")
    /\ semOk = "pass"
    /\ Len(syntaxTree.children) = 2
    /\ syntaxTree.children[1].value = kwDef
    /\ ~QuoteFirst(syntaxTree.children[1])
    /\ syntaxTree.children[2].value = kwPrint
    /\ QuoteFirst(syntaxTree.children[2])

\* C6: on the scenario text, tokenize, parse and checkSemantics end in a
\* pass.
C6_ScenarioPasses ==
    (code = txtScenario /\ Did("checkSemantics")) => semOk = "pass"

(***************************************************************************)
(* Properties of generateCode.                                             *)
(***************************************************************************)
expVoidMain ==
    <<"v", "o", "i", "d", " ", "m", "a", "i", "n", "(", ")", " ", "{">>

expPrintHello ==
    <<"s", "t", "d", ":", ":", "c", "o", "u", "t", " ", "<", "<", " ", "\"",
      "H", "e", "l", "l", "o", "\"", " ", "<", "<", " ", "s", "t", "d", ":",
      ":", "e", "n", "d", "l", ";">>

\* C7: on the scenario text, tokenize, parse and generateCode yield a text
\* that begins with `void main() {`, contains the statement that streams
\* "Hello", and ends with one closing brace.
C7_ScenarioOutput ==
    (code = txtScenario /\ Did("generateCode")) =>
        /\ ~cppCode.fault
        /\ IsPrefix(expVoidMain, Flatten(cppCode.pieces))
        /\ Contains(expPrintHello, Flatten(cppCode.pieces))
        /\ IsSuffix(litClose, Flatten(cppCode.pieces))

\* C8: for every tree generateCode returns a text that ends with the closing
\* brace and line break it appends last, and that is the only closing brace
\* generateCode itself adds.
C8_OneClosingBrace ==
    Did("generateCode") =>
        /\ ~cppCode.fault
        /\ Len(cppCode.pieces) >= 1
        /\ cppCode.pieces[Len(cppCode.pieces)] = Lit(litClose)
        /\ LitCount("}", cppCode.pieces) = 1
        /\ IsSuffix(litClose, Flatten(cppCode.pieces))

(***************************************************************************)
(* Properties of the menu loop (checked under Spec).                       *)
(***************************************************************************)
\* The tokens and the tree are those of the loaded, non-empty text, produced
\* by options 1, 2 and 3 in that order.
Parsed ==
    /\ code # <<>>
    /\ Did("tokenize")
    /\ Did("parse")
    /\ tokens = tokenize(code)
    /\ syntaxTree = parse(tokens)

\* C9: once a non-empty source is loaded, tokenized and parsed, option 4 runs
\* checkSemantics and option 5 runs generateCode instead of reporting
\* "Parse the code first."
C9_StagesRunAfterParse ==
    [][(Parsed /\ option' \in {4, 5}) =>
          /\ last' # "Parse the code first."
          /\ option' = 4 => ("checkSemantics" \in invoked')
          /\ option' = 5 => ("generateCode" \in invoked')]_vars

\* C10: a stage requested before its input is ready is not invoked: the
\* request is reported, the text, the tokens and the tree stay as they are,
\* and the loop goes on.
C10_EarlyRequestRejected ==
    [][/\ (option' = 2 /\ code = <<>>) =>
            /\ last' = "Load a file first."
            /\ UNCHANGED <<code, tokens, syntaxTree, invoked, exit>>
       /\ (option' = 3 /\ tokens = <<>>) =>
            /\ last' = "Tokenize the code first."
            /\ UNCHANGED <<code, tokens, syntaxTree, invoked, exit>>
       /\ (option' \in {4, 5} /\ ~Did("parse")) =>
            /\ last' = "Parse the code first."
            /\ UNCHANGED <<code, tokens, syntaxTree, invoked, exit>>]_vars

C10_Witness ==
    /\ option = 5
    /\ last = "Parse the code first."
    /\ tokens # <<>>
    /\ ~Did("parse")
    /\ ~exit


(***************************************************************************)
(* Further properties of generateCode, the menu loop, tokenize and parse.  *)
(***************************************************************************)
\* C11: generateCode never faults on a tree parse builds from the tokens of
\* a source text.
C11_NeverFaults ==
    Did("generateCode") => ~cppCode.fault

\* C12: in the menu loop option 3 parses only the tokens of the text that is
\* loaded now, and options 4 and 5 work only on the tree of that text.
C12_NoStaleData ==
    [][/\ (option' = 3 /\ last' = "printTree") => tokens = tokenize(code)
       /\ (option' \in {4, 5} /\ last' # "Parse the code first.")
             => syntaxTree = parse(tokenize(code))]_vars

\* A step in which the function f is called for the first time.
Calls(f) == f \notin invoked /\ f \in invoked'

ProducedKinds == {"KEYWORD", "IDENTIFIER", "STRING", "WHITESPACE", "OPERATOR"}

\* A non-empty text made of digits only.
AllDigits(t) == Len(t) > 0 /\ \A k \in 1..Len(t) : t[k] \in DigitChars

\* C14: tokenize produces neither UNKNOWN nor NUMBER; a token made of digits
\* comes out as IDENTIFIER.
C14_NoNumberNoUnknown ==
    Did("tokenize") =>
        \A i \in 1..Len(tokens) :
            /\ tokens[i].type \in ProducedKinds
            /\ AllDigits(tokens[i].value) => tokens[i].type = "IDENTIFIER"

C14_Witness ==
    /\ Did("tokenize")
    /\ code = txtNoKeyword
    /\ \E i \in 1..Len(tokens) :
          tokens[i].value = <<"4", "2">> /\ tokens[i].type = "IDENTIFIER"

\* No child of the node, and no child of a child, has an empty label.
NoEmptyLabel(node) ==
    \A i \in 1..Len(node.children) :
        /\ node.children[i].value # <<>>
        /\ \A j \in 1..Len(node.children[i].children) :
              node.children[i].children[j].value # <<>>

\* C15: the tree parse returns, and the root after every prefix of the
\* tokens, stores no node with an empty label.
C15_NoEmptyLabelStored ==
    Did("parse") =>
        /\ NoEmptyLabel(syntaxTree)
        /\ \A k \in 0..Len(tokens) : NoEmptyLabel(ParseLoop(tokens, k).root)

C15_Witness ==
    /\ Did("parse")
    /\ Len(tokens) = 2
    /\ KwPos(tokens) = {}
    /\ syntaxTree.children = <<>>

\* C16: in a tree built from the tokens of a text every child of the root is
\* labelled def or print (a token is KEYWORD exactly when its text is def or
\* print), so generateCode never applies its ":" rule to such a tree.
C16_ChildrenAreKeywords ==
    /\ Did("tokenize") =>
          \A i \in 1..Len(tokens) :
              (tokens[i].type = "KEYWORD")
                  <=> (tokens[i].value \in {kwDef, kwPrint})
    /\ Did("parse") =>
          \A i \in 1..Len(syntaxTree.children) :
              syntaxTree.children[i].value \in {kwDef, kwPrint}
    /\ Did("generateCode") =>
          \A i \in 1..Len(cppCode.pieces) : cppCode.pieces[i] # Lit(litBlock)

C16_Witness ==
    /\ Did("generateCode")
    /\ code = txtScenario
    /\ Len(syntaxTree.children) = 2
    /\ \E j \in 1..Len(syntaxTree.children[1].children) :
          syntaxTree.children[1].children[j].value = labColon

RECURSIVE TokStart(_, _)
\* The position in the text of the first character of the k-th token.
TokStart(toks, k) ==
    IF k = 1 THEN 1 ELSE TokStart(toks, k - 1) + Len(toks[k - 1].value)

\* The tokens of print("Hello") as C17 lists them.
tokensCompact ==
    <<Token("KEYWORD", kwPrint), Token("OPERATOR", <<"(", "\"">>),
      Token("IDENTIFIER", <<"H", "e", "l", "l", "o">>),
      Token("OPERATOR", <<"\"", ")">>)>>

\* C17 as stated: a STRING token starts only at the start of the text or
\* right after a word character or whitespace, and print("Hello") gives
\* print, (", Hello, ") without a STRING token.
C17_StringOnlyAfterWordOrSpace ==
    Did("tokenize") =>
        /\ \A k \in 1..Len(tokens) :
              tokens[k].type = "STRING" =>
                  \/ TokStart(tokens, k) = 1
                  \/ code[TokStart(tokens, k) - 1]
                        \in WordChars \cup SpaceChars
        /\ code = txtCompact => tokens = tokensCompact

\* C17 as amended: a STRING token also starts right after the closing quote
\* of the STRING token before it.
C17_StringNotAfterOperator ==
    Did("tokenize") =>
        /\ \A k \in 1..Len(tokens) :
              tokens[k].type = "STRING" =>
                  \/ TokStart(tokens, k) = 1
                  \/ code[TokStart(tokens, k) - 1]
                        \in WordChars \cup SpaceChars
                  \/ tokens[k - 1].type = "STRING"
        /\ code = txtCompact => tokens = tokensCompact

C17_Witness ==
    /\ Did("tokenize")
    /\ code = txtCompact
    /\ tokens = tokensCompact
    /\ \A k \in 1..Len(tokens) : tokens[k].type # "STRING"

====
